---- MODULE Spec2Model ----
(***************************************************************************)
(* The multi-process logging pipeline of src/mproc_logging.py (workers     *)
(* pushing LogRecords through a multiprocessing.Queue to one listener      *)
(* that writes them with a RotatingFileHandler) and the rotating file      *)
(* handler of src/rotating_logging.py.                                     *)
(*                                                                         *)
(* Byte counts are scaled: one unit is the length of the shortest          *)
(* formatted line.  Loop counts are scaled the same way; every scaled      *)
(* quantity is a named bound below.                                        *)
(***************************************************************************)
EXTENDS Integers, Sequences, FiniteSets, TLC

\* ---------------------------------------------------------------- bounds
\* main(): `for _ in range(10)` worker processes (scaled).
NumWorkers == 2
\* worker_process(): `for i in range(10)` logging actions (scaled).
NumSteps == 1
\* FILEROTATION_MAXBYTES = 5000, in units of one formatted line (scaled).
FILEROTATION_MAXBYTES == 2
\* FILEROTATION_NBACKUPS = 3, the value of the source.
FILEROTATION_NBACKUPS == 3
\* How many failures the environment injects into the listener loop.
MaxFaults == 1
\* How many items arrive in the queue of a listener run on any queue.
MaxQueued == 4
\* rotating_logging.py: maxBytes=300 (scaled), backupCount=10 (scaled),
\* `for i in range(100)` (scaled).
rh_maxBytes == 3
rh_backupCount == 2
rh_range == 7

\* logging.DEBUG, and logging.WARNING, the level of a root logger nobody configured.
DEBUG == 10
WARNING == 30
LEVEL == DEBUG

\* Process ids: main(), the workers, the listener.
Main == 0
Workers == 1..NumWorkers
Listener == NumWorkers + 1
Procs == {Main, Listener} \cup Workers

\* The Sentinel put by main(): Python's None.
None == [kind |-> "None"]
\* No record bound yet / no line written yet.
NoRecord == [kind |-> "NoRecord"]

\* A LogRecord made by process p at step i whose formatted line is n units long.
LogRecord(p, i, n) == [kind |-> "LogRecord", proc |-> p, step |-> i, len |-> n]

\* len("%s\n" % self.format(record))
FormatLen(rec) == rec.len

VARIABLES
  mainPc,       \* position of main()
  started,      \* number of worker processes main() has started
  joined,       \* number of worker processes main() has joined
  workerPc,     \* per worker: position of worker_process()
  workerStep,   \* per worker: the loop variable i
  buffer,       \* per process: the multiprocessing.Queue's local buffer (feeder thread)
  pipe,         \* the multiprocessing.Queue's pipe, shared by all processes
  rootLogger,   \* per process: the handlers and the level of its root logger
  listenerPc,   \* position of listener_process()
  record,       \* the listener's local `record`
  sink,         \* the log files: the active file, its numbered backups, and the
                \* number of rollovers done so far
  stderr,       \* number of diagnostic reports printed to sys.stderr by the listener
  rhI,          \* rotating_logging.py: the loop variable i
  \* history, read only by the properties
  pushed,       \* the records handed to the queue by a QueueHandler
  queued,       \* every item ever written to the pipe, in order
  dispatched,   \* the records the listener passed to logger.handle, in order
  dropped,      \* the records whose handling failed, in order
  sinkWriters,  \* the processes that ever wrote to or rotated the sink
  sentinels,    \* the processes that put a None, in order
  lastLine,     \* the record of the latest emit into the sink
  firstBackup   \* the content of the first backup ever made

vars == <<mainPc, started, joined, workerPc, workerStep, buffer, pipe, rootLogger,
          listenerPc, record, sink, stderr, rhI, pushed, queued, dispatched, dropped,
          sinkWriters, sentinels, lastLine, firstBackup>>

\* ------------------------------------------------ RotatingFileHandler
RECURSIVE Size(_)
\* stream.tell() at the end of the file: the bytes of all lines in it.
Size(file) == IF file = <<>> THEN 0 ELSE FormatLen(Head(file)) + Size(Tail(file))

\* A handler that never rolls over.
shouldRollover_never(s, rec, maxBytes) == FALSE

\* shouldRollover: the check made BEFORE the record is written.
shouldRollover(s, rec, maxBytes) ==
  /\ maxBytes > 0
  /\ Size(s.active) + FormatLen(rec) >= maxBytes

RECURSIVE ShiftBackups(_, _)
\* doRollover's loop `for i in range(backupCount - 1, 0, -1)`: base.i -> base.(i+1),
\* removing base.(i+1) first when it exists.
ShiftBackups(b, i) ==
  IF i < 1 THEN b
  ELSE IF i \in DOMAIN b
       THEN ShiftBackups([j \in ((DOMAIN b) \ {i}) \cup {i + 1} |->
                            IF j = i + 1 THEN b[i] ELSE b[j]], i - 1)
       ELSE ShiftBackups(b, i - 1)

\* A rollover that shifts every backup, the one at index backupCount included.
doRollover_keepAll(s, backupCount) ==
  IF backupCount > 0
  THEN LET shifted == ShiftBackups(s.backups, backupCount)
       IN  [active    |-> <<>>,
            backups   |-> [j \in (DOMAIN shifted) \cup {1} |->
                             IF j = 1 THEN s.active ELSE shifted[j]],
            rollovers |-> s.rollovers + 1]
  ELSE [s EXCEPT !.rollovers = @ + 1]

\* A rollover that empties the active file when there is no backup to keep.
doRollover_truncate(s, backupCount) ==
  IF backupCount > 0
  THEN LET shifted == ShiftBackups(s.backups, backupCount - 1)
       IN  [active    |-> <<>>,
            backups   |-> [j \in (DOMAIN shifted) \cup {1} |->
                             IF j = 1 THEN s.active ELSE shifted[j]],
            rollovers |-> s.rollovers + 1]
  ELSE [s EXCEPT !.active = <<>>, !.rollovers = @ + 1]

\* doRollover: close the stream, shift the backups, rename the active file to
\* base.1 and reopen an empty active file.  With backupCount = 0 nothing is
\* renamed and the file is reopened in append mode.
doRollover(s, backupCount) ==
  IF backupCount > 0
  THEN LET shifted == ShiftBackups(s.backups, backupCount - 1)
       IN  [active    |-> <<>>,
            backups   |-> [j \in (DOMAIN shifted) \cup {1} |->
                             IF j = 1 THEN s.active ELSE shifted[j]],
            rollovers |-> s.rollovers + 1]
  ELSE [s EXCEPT !.rollovers = @ + 1]

\* A sink that checks the size only after the line is appended.
emit_checkAfter(s, rec, maxBytes, backupCount) ==
  LET w == [s EXCEPT !.active = Append(@, rec)]
  IN  IF maxBytes > 0 /\ Size(w.active) >= maxBytes
      THEN doRollover(w, backupCount) ELSE w

\* BaseRotatingHandler.emit: roll over if needed, then append the whole line.
emit(s, rec, maxBytes, backupCount) ==
  LET r == IF shouldRollover(s, rec, maxBytes) THEN doRollover(s, backupCount) ELSE s
  IN  [r EXCEPT !.active = Append(@, rec)]

\* The files of the sink, and the lines in them.
Files(s) == {s.active} \cup {s.backups[j] : j \in DOMAIN s.backups}
LinesOf(file) == {file[k] : k \in 1..Len(file)}
AllLines(s) == UNION {LinesOf(f) : f \in Files(s)}

\* ------------------------------------------------------------- initial state
\* A root logger nobody configured: no handler, level WARNING.
UnconfiguredLogger == [handlers |-> {}, level |-> WARNING]

Init ==
  /\ mainPc = "start_listener"
  /\ started = 0
  /\ joined = 0
  /\ workerPc = [w \in Workers |-> "unstarted"]
  /\ workerStep = [w \in Workers |-> 0]
  /\ buffer = [p \in Procs |-> <<>>]
  /\ pipe = <<>>
  /\ rootLogger = [p \in Procs |-> UnconfiguredLogger]
  /\ listenerPc = "unstarted"
  /\ record = NoRecord
  /\ sink = [active |-> <<>>, backups |-> <<>>, rollovers |-> 0]
  /\ stderr = 0
  /\ rhI = 0
  /\ pushed = {}
  /\ queued = <<>>
  /\ dispatched = <<>>
  /\ dropped = <<>>
  /\ sinkWriters = {}
  /\ sentinels = <<>>
  /\ lastLine = NoRecord
  /\ firstBackup = <<>>

sinkVars == <<sink, sinkWriters, lastLine, firstBackup>>
queueVars == <<buffer, pipe, pushed, queued, sentinels>>
mainVars == <<mainPc, started, joined>>
workerVars == <<workerPc, workerStep>>
listenerVars == <<listenerPc, record, dispatched, dropped, stderr>>

\* ------------------------------------------------------ handlers of a logger
\* RotatingFileHandler.emit by process p on the shared log files.
SinkEmit(p, rec, maxBytes, backupCount) ==
  /\ sink' = emit(sink, rec, maxBytes, backupCount)
  /\ sinkWriters' = sinkWriters \cup {p}
  /\ lastLine' = rec
  /\ firstBackup' = IF sink.rollovers = 0 /\ sink'.rollovers > 0 /\ 1 \in DOMAIN sink'.backups
                    THEN sink'.backups[1] ELSE firstBackup

\* mp.Queue(-1): a maxsize <= 0 makes the queue's semaphore start at
\* SEM_VALUE_MAX, so the queue holds that many items before put would fail.
SEM_VALUE_MAX == 2147483647

\* The items put and not yet got: the semaphore is taken by put and given
\* back by get.
RECURSIVE Buffered(_)
Buffered(n) == IF n < 0 THEN 0 ELSE Len(buffer[n]) + Buffered(n - 1)

Occupancy == Len(pipe) + Buffered(NumWorkers + 1)

\* A queue made with maxsize 1.
Put_maxsize1(p, item) ==
  /\ Occupancy < 1
  /\ buffer' = [buffer EXCEPT ![p] = Append(@, item)]


\* queue.put_nowait(item) by process p: the item goes to p's buffer, from where
\* p's feeder thread writes it to the pipe.
Put(p, item) ==
  /\ Occupancy < SEM_VALUE_MAX
  /\ buffer' = [buffer EXCEPT ![p] = Append(@, item)]

\* Logger.callHandlers: every handler of p's root logger gets the record.
callHandlers(p, rec) ==
  /\ IF "QueueHandler" \in rootLogger[p].handlers
     THEN Put(p, rec) /\ pushed' = pushed \cup {rec}
     ELSE UNCHANGED <<buffer, pushed>>
  /\ IF "RotatingFileHandler" \in rootLogger[p].handlers
     THEN SinkEmit(p, rec, FILEROTATION_MAXBYTES, FILEROTATION_NBACKUPS)
     ELSE UNCHANGED sinkVars

\* A queue that hands over the newest buffered item first.
Feeder_lifo(p) ==
  /\ buffer[p] # <<>>
  /\ pipe' = Append(pipe, buffer[p][Len(buffer[p])])
  /\ queued' = Append(queued, buffer[p][Len(buffer[p])])
  /\ buffer' = [buffer EXCEPT ![p] = SubSeq(@, 1, Len(@) - 1)]
  /\ UNCHANGED <<mainVars, workerVars, listenerVars, sinkVars, rootLogger, rhI,
                 pushed, sentinels>>

\* The feeder thread of process p writes the oldest buffered item to the pipe.
Feeder(p) ==
  /\ buffer[p] # <<>>
  /\ pipe' = Append(pipe, Head(buffer[p]))
  /\ queued' = Append(queued, Head(buffer[p]))
  /\ buffer' = [buffer EXCEPT ![p] = Tail(@)]
  /\ UNCHANGED <<mainVars, workerVars, listenerVars, sinkVars, rootLogger, rhI,
                 pushed, sentinels>>

\* ------------------------------------------------------------ worker_process
\* worker_configurer with a file handler of its own next to the queue handler.
worker_configurer_file(logger) ==
  [handlers |-> logger.handlers \cup {"QueueHandler", "RotatingFileHandler"},
   level |-> DEBUG]

\* worker_configurer: a QueueHandler on the root logger, whose level becomes DEBUG.
worker_configurer(logger) ==
  [handlers |-> logger.handlers \cup {"QueueHandler"}, level |-> DEBUG]

\* A worker process that ends without joining its feeder thread.
CanExit_noFlush(w) == TRUE

\* A process ends only after its feeder thread has written the whole buffer of
\* the queue to the pipe.
CanExit(w) == buffer[w] = <<>>

\* configurer(queue)
WorkerConfigure(w) ==
  /\ workerPc[w] = "configure"
  /\ rootLogger' = [rootLogger EXCEPT ![w] = worker_configurer(@)]
  /\ workerPc' = [workerPc EXCEPT ![w] = "loop"]
  /\ UNCHANGED <<mainVars, workerStep, listenerVars, sinkVars, queueVars, rhI>>

\* One turn of `for i in range(n)`: logger.log(LEVEL, message).
WorkerLogN(w, n) ==
  /\ workerPc[w] = "loop"
  /\ workerStep[w] < n
  /\ IF LEVEL >= rootLogger[w].level
     THEN callHandlers(w, LogRecord(w, workerStep[w], 1))
     ELSE UNCHANGED <<buffer, pushed, sinkVars>>
  /\ workerStep' = [workerStep EXCEPT ![w] = @ + 1]
  /\ UNCHANGED <<mainVars, workerPc, listenerVars, rootLogger, pipe, queued, sentinels, rhI>>

\* One turn of `for i in range(10)`, the 10 scaled to NumSteps.
WorkerLog(w) == WorkerLogN(w, NumSteps)

\* The loop `for i in range(n)` is over and the process ends.
WorkerExitN(w, n) ==
  /\ workerPc[w] = "loop"
  /\ workerStep[w] = n
  /\ CanExit(w)
  /\ workerPc' = [workerPc EXCEPT ![w] = "exited"]
  /\ UNCHANGED <<mainVars, workerStep, listenerVars, sinkVars, queueVars, rootLogger, rhI>>

\* The loop `for i in range(10)`, the 10 scaled to NumSteps, is over.
WorkerExit(w) == WorkerExitN(w, NumSteps)

\* ---------------------------------------------------------- listener_process
\* A listener_configurer that also installs the workers' QueueHandler.
listener_configurer_queue(logger) ==
  [logger EXCEPT !.handlers = @ \cup {"RotatingFileHandler", "QueueHandler"}]

\* listener_configurer: a RotatingFileHandler on the root logger.
listener_configurer(logger) ==
  [logger EXCEPT !.handlers = @ \cup {"RotatingFileHandler"}]

\* A loop that breaks on the first item, whatever it is.
AfterGet_breakAlways(item) == "stopped"

\* A listener that drops the Sentinel and goes on reading.
AfterGet_ignoreSentinel(item) == IF item = None THEN "get" ELSE "handle"

\* `if record is None: break`, else the record is handled.
AfterGet(item) == IF item = None THEN "stopped" ELSE "handle"

\* An except clause outside the loop: a failure ends the listener.
AfterFailure_stop == "stopped"

\* The except clause is inside `while True`: after the report the loop goes on
\* with the next queue.get().
AfterFailure == "get"

\* The record an except clause that logged its report with the logging module
\* would send to the handlers of the root logger.
Diagnostic == [kind |-> "Diagnostic", proc |-> Listener, step |-> 0, len |-> 1]

\* A report made through the root logger: it lands in the log file.
report_toSink(s) == [s EXCEPT !.active = Append(@, Diagnostic)]

\* print(..., file=sys.stderr); traceback.print_exc(file=sys.stderr): the report
\* goes to stderr and leaves the log files as they are.
report(s) == s

\* configurer() returns.
ListenerConfigure ==
  /\ listenerPc = "configure"
  /\ rootLogger' = [rootLogger EXCEPT ![Listener] = listener_configurer(@)]
  /\ listenerPc' = "get"
  /\ UNCHANGED <<mainVars, workerVars, record, dispatched, dropped, stderr, sinkVars,
                 queueVars, rhI>>

\* configurer() raises (the log file cannot be opened): the call is outside the
\* try block, so the exception ends the listener process.
ListenerConfigureFail ==
  /\ listenerPc = "configure"
  /\ listenerPc' = "crashed"
  /\ UNCHANGED <<mainVars, workerVars, record, dispatched, dropped, stderr, sinkVars,
                 queueVars, rootLogger, rhI>>

\* record = queue.get(); `if record is None: break`.
ListenerGet ==
  /\ listenerPc = "get"
  /\ pipe # <<>>
  /\ record' = Head(pipe)
  /\ pipe' = Tail(pipe)
  /\ listenerPc' = AfterGet(Head(pipe))
  /\ UNCHANGED <<mainVars, workerVars, dispatched, dropped, stderr, sinkVars, buffer, pushed,
                 queued, sentinels, rootLogger, rhI>>

\* queue.get() raises: the except clause reports to stderr and the loop goes on.
ListenerGetFail ==
  /\ listenerPc = "get"
  /\ stderr < MaxFaults
  /\ stderr' = stderr + 1
  /\ sink' = report(sink)
  /\ listenerPc' = AfterFailure
  /\ UNCHANGED <<mainVars, workerVars, record, dispatched, dropped, sinkWriters, lastLine,
                 firstBackup, queueVars, rootLogger, rhI>>

\* logger = logging.getLogger(record.name); logger.handle(record).
ListenerHandle ==
  /\ listenerPc = "handle"
  /\ callHandlers(Listener, record)
  /\ dispatched' = Append(dispatched, record)
  /\ listenerPc' = "get"
  /\ UNCHANGED <<mainVars, workerVars, record, dropped, stderr, pipe, queued, sentinels,
                 rootLogger, rhI>>

\* logger.handle(record) fails: the error is reported to stderr (by the handler's
\* handleError or by the except clause), the line is not written and the loop
\* goes on.  The failure may come after the handler has rolled the file over.
ListenerHandleFail ==
  /\ listenerPc = "handle"
  /\ stderr < MaxFaults
  /\ stderr' = stderr + 1
  /\ dispatched' = Append(dispatched, record)
  /\ dropped' = Append(dropped, record)
  /\ listenerPc' = AfterFailure
  /\ \/ /\ sink' = report(sink)
        /\ UNCHANGED <<sinkWriters, lastLine, firstBackup>>
     \/ /\ "RotatingFileHandler" \in rootLogger[Listener].handlers
        /\ shouldRollover(sink, record, FILEROTATION_MAXBYTES)
        /\ sink' = report(doRollover(sink, FILEROTATION_NBACKUPS))
        /\ sinkWriters' = sinkWriters \cup {Listener}
        /\ firstBackup' = IF sink.rollovers = 0 /\ 1 \in DOMAIN sink'.backups
                          THEN sink'.backups[1] ELSE firstBackup
        /\ UNCHANGED lastLine
  /\ UNCHANGED <<mainVars, workerVars, record, queueVars, rootLogger, rhI>>

\* ---------------------------------------------------------------------- main
\* A join() that returns only for a process that ended normally.
Joinable_exited(w) == workerPc[w] = "exited"

\* wrk.join() returns once the process has ended, however it ended.
Joinable(w) == workerPc[w] \in {"exited", "crashed"}

\* listener = multiprocessing.Process(...); listener.start()
MainStartListener ==
  /\ mainPc = "start_listener"
  /\ listenerPc' = "configure"
  /\ mainPc' = "start_workers"
  /\ UNCHANGED <<started, joined, workerVars, record, dispatched, dropped, stderr, sinkVars,
                 queueVars, rootLogger, rhI>>

\* One turn of `for _ in range(10)`: wrk.start()
MainStartWorker ==
  /\ mainPc = "start_workers"
  /\ started < NumWorkers
  /\ workerPc' = [workerPc EXCEPT ![started + 1] = "configure"]
  /\ started' = started + 1
  /\ mainPc' = IF started + 1 = NumWorkers THEN "join_workers" ELSE mainPc
  /\ UNCHANGED <<joined, workerStep, listenerVars, sinkVars, queueVars, rootLogger, rhI>>

\* One turn of `for wrk in workers`: wrk.join()
MainJoinWorker ==
  /\ mainPc = "join_workers"
  /\ joined < NumWorkers
  /\ Joinable(joined + 1)
  /\ joined' = joined + 1
  /\ mainPc' = IF joined + 1 = NumWorkers THEN "put_sentinel" ELSE mainPc
  /\ UNCHANGED <<started, workerVars, listenerVars, sinkVars, queueVars, rootLogger, rhI>>

\* queue.put_nowait(None)
MainPutSentinel ==
  /\ mainPc = "put_sentinel"
  /\ Put(Main, None)
  /\ sentinels' = Append(sentinels, Main)
  /\ mainPc' = "join_listener"
  /\ UNCHANGED <<started, joined, workerVars, listenerVars, sinkVars, pipe, pushed,
                 queued, rootLogger, rhI>>

\* listener.join() returns once the listener process has ended; main() returns.
MainJoinListener ==
  /\ mainPc = "join_listener"
  /\ listenerPc \in {"stopped", "crashed"}
  /\ mainPc' = "done"
  /\ UNCHANGED <<started, joined, workerVars, listenerVars, sinkVars, queueVars,
                 rootLogger, rhI>>

\* ------------------------------------------------------------ specifications
MainStep ==
  \/ MainStartListener
  \/ MainStartWorker
  \/ MainJoinWorker
  \/ MainPutSentinel
  \/ MainJoinListener

WorkerStep(w) ==
  \/ WorkerConfigure(w)
  \/ WorkerLog(w)
  \/ WorkerExit(w)

ListenerStep ==
  \/ ListenerConfigure
  \/ ListenerGet
  \/ ListenerHandle

ListenerFault ==
  \/ ListenerConfigureFail
  \/ ListenerGetFail
  \/ ListenerHandleFail

Next ==
  \/ MainStep
  \/ \E w \in Workers : WorkerStep(w)
  \/ \E p \in Procs : Feeder(p)
  \/ ListenerStep
  \/ ListenerFault

Spec == Init /\ [][Next]_vars

\* Every process gets to run, and so does every feeder thread; the failures are
\* never forced to happen.
Fairness ==
  /\ WF_vars(MainStep)
  /\ \A w \in Workers : WF_vars(WorkerStep(w))
  /\ \A p \in Procs : WF_vars(Feeder(p))
  /\ WF_vars(ListenerStep)

FairSpec == Spec /\ Fairness

\* ------------------------------------------- one more logging action each
\* The same pipeline with `for i in range(10)` scaled to NumSteps + 1, so that
\* every worker emits at least two events, and with no failure of queue.get()
\* or of the handling of a record.
WorkerStepMore(w) ==
  \/ WorkerConfigure(w)
  \/ WorkerLogN(w, NumSteps + 1)
  \/ WorkerExitN(w, NumSteps + 1)

NextMore ==
  \/ MainStep
  \/ \E w \in Workers : WorkerStepMore(w)
  \/ \E p \in Procs : Feeder(p)
  \/ ListenerStep
  \/ ListenerConfigureFail

SpecMore == Init /\ [][NextMore]_vars

\* ------------------------------------------------- the Sentinel pushed early
\* A variant of main() with its statements in another order: the workers are
\* started, queue.put_nowait(None) comes next, and only then the workers and
\* the listener are joined.
MainPutSentinelEarly ==
  /\ mainPc = "join_workers"
  /\ sentinels = <<>>
  /\ Put(Main, None)
  /\ sentinels' = Append(sentinels, Main)
  /\ UNCHANGED <<mainVars, workerVars, listenerVars, sinkVars, pipe, pushed,
                 queued, rootLogger, rhI>>

\* `for wrk in workers: wrk.join()`, after the Sentinel was pushed.
MainJoinWorkerLate ==
  /\ sentinels # <<>>
  /\ MainJoinWorker

\* The workers are joined and the Sentinel is in the queue already: on to
\* listener.join().
MainSentinelAlreadyPut ==
  /\ mainPc = "put_sentinel"
  /\ sentinels # <<>>
  /\ mainPc' = "join_listener"
  /\ UNCHANGED <<started, joined, workerVars, listenerVars, sinkVars, queueVars,
                 rootLogger, rhI>>

MainStepEarly ==
  \/ MainStartListener
  \/ MainStartWorker
  \/ MainPutSentinelEarly
  \/ MainJoinWorkerLate
  \/ MainSentinelAlreadyPut
  \/ MainJoinListener

NextEarly ==
  \/ MainStepEarly
  \/ \E w \in Workers : WorkerStep(w)
  \/ \E p \in Procs : Feeder(p)
  \/ ListenerStep

SpecEarly == Init /\ [][NextEarly]_vars

\* ------------------------------------------------------------ a worker crash
\* worker_process raises before its loop is over: the worker logs no more, and
\* its process ends once its feeder thread is done.
WorkerCrash(w) ==
  /\ workerPc[w] \in {"configure", "loop"}
  /\ workerStep[w] < NumSteps
  /\ workerPc' = [workerPc EXCEPT ![w] = "raised"]
  /\ UNCHANGED <<mainVars, workerStep, listenerVars, sinkVars, queueVars, rootLogger, rhI>>

\* The process of a worker that raised ends.
WorkerDie(w) ==
  /\ workerPc[w] = "raised"
  /\ CanExit(w)
  /\ workerPc' = [workerPc EXCEPT ![w] = "crashed"]
  /\ UNCHANGED <<mainVars, workerStep, listenerVars, sinkVars, queueVars, rootLogger, rhI>>

NextCrash ==
  \/ MainStep
  \/ \E w \in Workers : WorkerStep(w)
  \/ \E w \in Workers : WorkerCrash(w)
  \/ \E w \in Workers : WorkerDie(w)
  \/ \E p \in Procs : Feeder(p)
  \/ ListenerStep
  \/ ListenerConfigureFail

SpecCrash == Init /\ [][NextCrash]_vars

FairSpecCrash == SpecCrash /\ Fairness /\ \A w \in Workers : WF_vars(WorkerDie(w))

\* ------------------------------------------- listener_process on any queue
\* The listener has been started on a queue into which any producer puts any
\* item, an event or a None, at any time: a None may be followed by more items.
InitListener ==
  /\ mainPc = "start_workers"
  /\ started = 0
  /\ joined = 0
  /\ workerPc = [w \in Workers |-> "unstarted"]
  /\ workerStep = [w \in Workers |-> 0]
  /\ buffer = [p \in Procs |-> <<>>]
  /\ pipe = <<>>
  /\ rootLogger = [p \in Procs |-> UnconfiguredLogger]
  /\ listenerPc = "configure"
  /\ record = NoRecord
  /\ sink = [active |-> <<>>, backups |-> <<>>, rollovers |-> 0]
  /\ stderr = 0
  /\ rhI = 0
  /\ pushed = {}
  /\ queued = <<>>
  /\ dispatched = <<>>
  /\ dropped = <<>>
  /\ sinkWriters = {}
  /\ sentinels = <<>>
  /\ lastLine = NoRecord
  /\ firstBackup = <<>>

\* An item arrives in the pipe of the queue the listener reads.
QueueArrival ==
  /\ Len(queued) < MaxQueued
  /\ \E item \in {LogRecord(Main, Len(queued), 1), None} :
       /\ pipe' = Append(pipe, item)
       /\ queued' = Append(queued, item)
  /\ UNCHANGED <<mainVars, workerVars, listenerVars, sinkVars, buffer, pushed, sentinels,
                 rootLogger, rhI>>

NextListener ==
  \/ QueueArrival
  \/ ListenerStep
  \/ ListenerFault

SpecListener == InitListener /\ [][NextListener]_vars

\* The listener process gets to run.
FairSpecListener == SpecListener /\ WF_vars(ListenerStep)

\* ------------------------------------------------------- rotating_logging.py
\* One turn of `for i in range(n)`: logger.debug(...) reaches the handler rh,
\* which writes the formatted line, its length one of lens.
RhLogN(n, lens, maxBytes, backupCount) ==
  /\ rhI < n
  /\ \E len \in lens :
       SinkEmit(Main, LogRecord(Main, rhI, len), maxBytes, backupCount)
  /\ rhI' = rhI + 1
  /\ UNCHANGED <<mainVars, workerVars, listenerVars, queueVars, rootLogger>>

\* The script scaled down: the length of a line is drawn from the lengths
\* shorter than maxBytes.
RhLog == RhLogN(rh_range, 1..(rh_maxBytes - 1), rh_maxBytes, rh_backupCount)

NextSink == RhLog

SpecSink == Init /\ [][NextSink]_vars

\* ------------------------------------------- a rotating handler, no backups
\* The scaled script with RotatingFileHandler(..., backupCount=0).
RhLogNoBackup == RhLogN(rh_range, 1..(rh_maxBytes - 1), rh_maxBytes, 0)

NextNoBackup == RhLogNoBackup

SpecNoBackup == Init /\ [][NextNoBackup]_vars

\* ------------------------------------------- rotating_logging.py as written
\* RotatingFileHandler(filename=filename, maxBytes=300, backupCount=10)
RH_MAXBYTES == 300
RH_BACKUPCOUNT == 10
\* for i in range(100)
RH_RANGE == 100

\* The length of a line '%(asctime)s - %(name)s - %(levelname)s - %(message)s':
\* asctime (23), name "__main__" (8), levelname "DEBUG" (5), the message
\* "Hello, World! (count: {i:3})" (26), three separators " - " and the newline.
rh_lineLen == 23 + 3 + 8 + 3 + 5 + 3 + 26 + 1

RhLogScript == RhLogN(RH_RANGE, {rh_lineLen}, RH_MAXBYTES, RH_BACKUPCOUNT)

NextScript == RhLogScript

SpecScript == Init /\ [][NextScript]_vars

\* ==================================================================== claims
Min(a, b) == IF a < b THEN a ELSE b
Last(seq) == seq[Len(seq)]
\* The step at which each line of a file was written.
StepsOf(file) == {file[k].step : k \in 1..Len(file)}

\* The LogRecords in a sequence of queue items.
RECURSIVE SeqToSet(_)
SeqToSet(seq) == IF seq = <<>> THEN {} ELSE {Head(seq)} \cup SeqToSet(Tail(seq))
Events(seq) == {x \in SeqToSet(seq) : x # None}
\* What is still on its way to the listener.
InFlight == UNION {SeqToSet(buffer[p]) : p \in Procs} \cup SeqToSet(pipe)

\* ------------------------------------------------------------------------ C1
\* C1: when main() has returned, every event a worker pushed has been popped and
\* dispatched by the listener, and no event is left in the queue.
C1_NoEventLoss ==
  mainPc = "done" =>
    /\ pushed \subseteq SeqToSet(dispatched)
    /\ Events(pipe) = {}
    /\ \A p \in Procs : Events(buffer[p]) = {}

\* C1 fails only in the runs in which the listener process ended in its
\* configurer: in every other run nothing is lost.
C1_NoEventLossUnlessStartupFailed ==
  mainPc = "done" /\ listenerPc # "crashed" =>
    /\ pushed \subseteq SeqToSet(dispatched)
    /\ InFlight = {}

\* ------------------------------------------------------------------------ C2
\* C2: the listener dispatches the items of the queue in the order it popped
\* them, each exactly once: what it has dispatched is a prefix of what was
\* queued, the record in its hands is the next item, no Sentinel is ever
\* dispatched, and once it has stopped on the Sentinel every event queued before
\* the Sentinel has been dispatched and nothing is dispatched any more.
C2_DispatchOnceInOrder ==
  [][LET n == Len(dispatched')
     IN  /\ n <= Len(queued')
         /\ dispatched' = SubSeq(queued', 1, n)
         /\ None \notin SeqToSet(dispatched')
         /\ listenerPc' = "handle" => n < Len(queued') /\ record' = queued'[n + 1]
         /\ listenerPc' = "stopped" =>
              /\ n < Len(queued')
              /\ queued'[n + 1] = None
              /\ record' = None
         /\ listenerPc = "stopped" =>
              /\ listenerPc' = "stopped"
              /\ dispatched' = dispatched
              /\ record' = record
              /\ Len(pipe') >= Len(pipe)
              /\ SubSeq(pipe', 1, Len(pipe)) = pipe]_vars

\* The listener has dispatched two events and stopped on the Sentinel, and an
\* event that arrived after the Sentinel is left in the queue.
C2_Witness ==
  /\ listenerPc = "stopped"
  /\ Len(dispatched) = 2
  /\ Len(queued) >= 4
  /\ queued[3] = None
  /\ pipe = <<queued[4]>>
  /\ queued[4] # None

\* ------------------------------------------------------------------------ C3
\* C3: at most one Sentinel is ever pushed, and exactly one once main() has
\* returned; main() pushes it, after it has joined every worker, when every
\* worker has ended with nothing left in its buffer; so the Sentinel is the last
\* item of the queue, and once the listener has read it the queue is empty for
\* good and the sink is written no more.
C3_OneSentinelLast ==
  [][/\ Len(sentinels') <= 1
     /\ \A k \in 1..Len(sentinels') : sentinels'[k] = Main
     /\ mainPc' \in {"join_listener", "done"} <=> Len(sentinels') = 1
     /\ sentinels' # <<>> =>
          /\ joined' = NumWorkers
          /\ \A w \in Workers : workerPc'[w] = "exited" /\ buffer'[w] = <<>>
     /\ None \in SeqToSet(pipe') => Last(pipe') = None
     /\ None \in SeqToSet(queued') => Last(queued') = None
     /\ listenerPc' = "stopped" => InFlight' = {}
     /\ listenerPc = "stopped" => sink' = sink /\ queued' = queued]_vars

\* The Sentinel is in the pipe behind an event the listener has not read yet.
C3_Witness ==
  /\ Len(pipe) >= 2
  /\ Last(pipe) = None
  /\ pushed # {}

\* ------------------------------------------------------------------------ C4
\* C4: a failure of queue.get() or of the handling of one record adds one report
\* to stderr, writes no line to the sink, and leaves the listener at its next
\* queue.get(); the listener stops only by popping the Sentinel.
C4_FailureContained ==
  [][/\ stderr' # stderr =>
          /\ stderr' = stderr + 1
          /\ listenerPc' = "get"
          /\ sink'.active = sink.active \/ sink'.active = <<>>
          /\ AllLines(sink') \subseteq AllLines(sink)
     /\ listenerPc' = "stopped" /\ listenerPc # "stopped" =>
          /\ listenerPc = "get"
          /\ pipe # <<>> /\ Head(pipe) = None
          /\ record' = None
          /\ stderr' = stderr]_vars

\* The listener has stopped on the Sentinel after a failure it reported.
C4_Witness ==
  /\ listenerPc = "stopped"
  /\ stderr >= 1
  /\ Len(dispatched) = NumWorkers * NumSteps

\* ------------------------------------------------------------------------ C5
\* C5: once the configurer of the listener has failed, no worker is started and
\* no event is pushed.
C5_StartupFailureAborts ==
  [][listenerPc = "crashed" =>
       /\ started' = started
       /\ workerPc' = workerPc
       /\ workerStep' = workerStep
       /\ pushed' = pushed]_vars

\* ------------------------------------------------------------------------ C6
\* C6: under fair scheduling every worker is joined, the Sentinel is pushed, the
\* listener pops it and reaches STOPPED, and main() returns.
C6_Termination ==
  <>(/\ joined = NumWorkers
     /\ Len(sentinels) = 1
     /\ listenerPc = "stopped"
     /\ mainPc = "done")

\* C6 fails only in the runs in which the listener process ended in its
\* configurer: every other fair run ends as C6 says.
C6_TerminationUnlessStartupFailed ==
  <>(\/ listenerPc = "crashed"
     \/ /\ joined = NumWorkers
        /\ Len(sentinels) = 1
        /\ listenerPc = "stopped"
        /\ mainPc = "done")

\* ------------------------------------------------------------------------ C7
\* C7 as stated: once a worker has crashed, the Sentinel is never pushed, the
\* listener never reaches STOPPED and main() never gets past the joins.
C7_CrashBlocksForever ==
  (\E w \in Workers : workerPc[w] = "crashed") =>
    /\ sentinels = <<>>
    /\ listenerPc # "stopped"
    /\ mainPc \notin {"put_sentinel", "join_listener", "done"}

\* C7, amended: a crash of a worker blocks nothing.  join() returns for a process
\* that ended by a crash as for one that ended normally, so under fair
\* scheduling main() joins every worker, pushes the one Sentinel and returns,
\* with the listener ended; the events the crashed worker did not push are
\* never logged.
C7_CrashDoesNotBlock ==
  (\E w \in Workers : workerPc[w] = "crashed") ~>
    /\ joined = NumWorkers
    /\ Len(sentinels) = 1
    /\ mainPc = "done"
    /\ listenerPc \in {"stopped", "crashed"}
    /\ Cardinality(pushed) < NumWorkers * NumSteps

\* A worker has crashed, and main() has returned after the listener stopped on
\* the Sentinel.
C7_Witness ==
  /\ \E w \in Workers : workerPc[w] = "crashed"
  /\ mainPc = "done"
  /\ listenerPc = "stopped"
  /\ Len(sentinels) = 1

\* ------------------------------------------------------------------------ C8
\* C8: no step of a worker (its start, its configuration, a logging action, its
\* end, a write of its feeder thread) changes the active file, its size, the
\* backups or the rollover count; no worker has a file handler; the listener is
\* the only process that ever writes or rotates the sink.
C8_WorkersLeaveSinkAlone ==
  [][/\ (\E w \in Workers : \/ workerPc'[w] # workerPc[w]
                            \/ workerStep'[w] # workerStep[w]
                            \/ buffer'[w] # buffer[w]
                            \/ rootLogger'[w] # rootLogger[w]) =>
          /\ sink' = sink
          /\ Size(sink'.active) = Size(sink.active)
          /\ sinkWriters' = sinkWriters
     /\ \A w \in Workers : "RotatingFileHandler" \notin rootLogger'[w].handlers
     /\ sinkWriters' \subseteq {Listener}
     /\ sink' # sink => listenerPc = "handle"]_vars

\* Both workers have pushed, and the listener has written to the sink and rolled
\* it over.
C8_Witness ==
  /\ Cardinality(pushed) = NumWorkers * NumSteps
  /\ sinkWriters = {Listener}
  /\ sink.rollovers >= 1
  /\ sink.active # <<>>

\* ------------------------------------------------------------------------ C9
\* C9 as stated: write(event) appends the line and only then checks the size, so
\* the backup made by a rotation ends with the write that crossed max-bytes and
\* the active file is empty right after that write.
C9_AppendThenCheck ==
  [][sink'.rollovers > sink.rollovers =>
       /\ 1 \in DOMAIN sink'.backups
       /\ sink'.backups[1] = Append(sink.active, lastLine')
       /\ sink'.active = <<>>]_vars

\* C9, amended: the size is checked BEFORE the line is appended.  When the size
\* of the active file plus the length of the line reaches max-bytes (>=), the
\* sink rotates first: the backup made by that rotation holds exactly the writes
\* made before the crossing write, and the active file holds the crossing write
\* alone.  Otherwise the line is appended to the active file and the backups are
\* untouched.  Either way the whole line is in the active file and in no backup,
\* and (each line being shorter than max-bytes) the active file stays below
\* max-bytes.
C9_CheckThenAppend ==
  [][sink' # sink =>
       /\ IF Size(sink.active) + FormatLen(lastLine') >= rh_maxBytes
          THEN /\ sink'.rollovers = sink.rollovers + 1
               /\ sink'.backups[1] = sink.active
               /\ sink'.active = <<lastLine'>>
          ELSE /\ sink'.rollovers = sink.rollovers
               /\ sink'.backups = sink.backups
               /\ sink'.active = Append(sink.active, lastLine')
       /\ \A j \in DOMAIN sink'.backups : lastLine' \notin LinesOf(sink'.backups[j])
       /\ Size(sink'.active) < rh_maxBytes]_vars

\* A rotation has happened whose backup holds two writes, and the crossing write
\* is alone in the active file.
C9_Witness ==
  /\ sink.rollovers >= 1
  /\ 1 \in DOMAIN sink.backups
  /\ Len(sink.backups[1]) = 2
  /\ sink.active = <<lastLine>>

\* ----------------------------------------------------------------------- C10
\* C10: with max-backups = K the sink never holds more than K backups; the
\* backups are the indices 1..min(rollovers, K), so after K+1 rollovers exactly K
\* exist; index 1 is the newest and the highest index the oldest; and after K+1
\* rollovers no line of the first backup ever made is in any file.
C10_BackupEviction ==
  /\ Cardinality(DOMAIN sink.backups) <= rh_backupCount
  /\ DOMAIN sink.backups = 1..Min(sink.rollovers, rh_backupCount)
  /\ \A j \in DOMAIN sink.backups :
       /\ sink.backups[j] # <<>>
       /\ \A a \in StepsOf(sink.active) : \A b \in StepsOf(sink.backups[j]) : b < a
       /\ \A k \in DOMAIN sink.backups :
            j < k => \A a \in StepsOf(sink.backups[j]) :
                       \A b \in StepsOf(sink.backups[k]) : b < a
  /\ sink.rollovers >= 1 => firstBackup # <<>>
  /\ sink.rollovers <= rh_backupCount /\ sink.rollovers >= 1 =>
       sink.backups[sink.rollovers] = firstBackup
  /\ sink.rollovers >= rh_backupCount + 1 =>
       /\ Cardinality(DOMAIN sink.backups) = rh_backupCount
       /\ LinesOf(firstBackup) \cap AllLines(sink) = {}

\* K+1 rollovers have been done.
C10_Witness ==
  /\ sink.rollovers = rh_backupCount + 1
  /\ Cardinality(DOMAIN sink.backups) = rh_backupCount

\* ----------------------------------------------------------------------- C11
RECURSIVE CountIn(_, _)
\* How often x occurs in a sequence.
CountIn(seq, x) ==
  IF seq = <<>> THEN 0
  ELSE (IF Head(seq) = x THEN 1 ELSE 0) + CountIn(Tail(seq), x)

RECURSIVE CountInBackups(_, _, _)
CountInBackups(b, ids, x) ==
  IF ids = {} THEN 0
  ELSE LET j == CHOOSE k \in ids : TRUE
       IN  CountIn(b[j], x) + CountInBackups(b, ids \ {j}, x)

\* How often the line of record x is in the files of the sink.
Written(s, x) == CountIn(s.active, x) + CountInBackups(s.backups, DOMAIN s.backups, x)

\* C11: a failed write adds exactly one report to stderr.  When exactly one
\* write has failed and nothing else has, the failed event was handled once and
\* is in no file (no retry), every other handled event is in the files exactly
\* once, and the files hold nothing but handled events (no error record).  When
\* a Sentinel follows, the listener still reaches STOPPED.
C11_OneWriteFailure ==
  /\ [][/\ Len(dropped') = Len(dropped) + 1 => stderr' = stderr + 1
        /\ Len(dropped') = 1 /\ stderr' = 1 =>
             /\ CountIn(dispatched', dropped'[1]) = 1
             /\ Written(sink', dropped'[1]) = 0
             /\ \A r \in SeqToSet(dispatched') \ {dropped'[1]} : Written(sink', r) = 1
             /\ AllLines(sink') \subseteq SeqToSet(dispatched')]_vars
  /\ (Len(dropped) = 1 /\ None \in SeqToSet(pipe)) ~> listenerPc = "stopped"

\* The write of the second of three events failed; the other two are written,
\* one report is on stderr, and the listener has stopped on the Sentinel.
C11_Witness ==
  /\ listenerPc = "stopped"
  /\ Len(dispatched) = 3
  /\ dropped = <<dispatched[2]>>
  /\ stderr = 1
  /\ Written(sink, dispatched[1]) = 1
  /\ Written(sink, dispatched[3]) = 1
  /\ Cardinality(AllLines(sink)) = 2

\* ----------------------------------------------------------------------- C12
\* C12: the events of one worker reach the pipe, and are dispatched by the
\* listener, in the order the worker emitted them (by step), whatever the
\* interleaving; events of different workers come in any order.
C12_PerWorkerFifo ==
  [][/\ Len(dispatched') > Len(dispatched) =>
          \A i \in 1..Len(dispatched) :
            dispatched[i].proc = Last(dispatched').proc =>
              dispatched[i].step < Last(dispatched').step
     /\ Len(queued') > Len(queued) /\ Last(queued') # None =>
          \A i \in 1..Len(queued) :
            queued[i] # None /\ queued[i].proc = Last(queued').proc =>
              queued[i].step < Last(queued').step]_vars

\* The second worker's first event is dispatched before the first worker's first
\* event, and the two events of the first worker follow in their order.
C12_Witness ==
  /\ Len(dispatched) >= 3
  /\ dispatched[1] = LogRecord(2, 0, 1)
  /\ dispatched[2] = LogRecord(1, 0, 1)
  /\ dispatched[3] = LogRecord(1, 1, 1)

\* ----------------------------------------------------------------------- C13
\* What worker w has pushed so far.
PushedBy(w) == {r \in pushed : r.proc = w}

\* One event is pushed per logging action and none is filtered out.
OneEventPerAction ==
  \A w \in Workers :
    /\ Cardinality(PushedBy(w)) = workerStep[w]
    /\ workerPc[w] = "exited" => Cardinality(PushedBy(w)) = NumSteps

\* C13: every worker pushes exactly one event per logging action, so when
\* main() has returned the listener has dispatched exactly
\* NumWorkers * NumSteps events and has stopped, and if no handling failed and
\* no backup was evicted the files hold NumWorkers * NumSteps lines (all of them
\* in the active file if there was no rotation).
C13_EventCount ==
  /\ OneEventPerAction
  /\ mainPc = "done" =>
       /\ listenerPc = "stopped"
       /\ Len(dispatched) = NumWorkers * NumSteps
       /\ stderr = 0 /\ sink.rollovers <= FILEROTATION_NBACKUPS =>
            Cardinality(AllLines(sink)) = NumWorkers * NumSteps
       /\ stderr = 0 /\ sink.rollovers = 0 =>
            Cardinality(LinesOf(sink.active)) = NumWorkers * NumSteps

\* C13 fails only in the runs in which the listener process ended in its
\* configurer: in every other run the counts are as stated.
C13_EventCountUnlessStartupFailed ==
  /\ OneEventPerAction
  /\ mainPc = "done" /\ listenerPc # "crashed" =>
       /\ listenerPc = "stopped"
       /\ Len(dispatched) = NumWorkers * NumSteps
       /\ stderr = 0 /\ sink.rollovers <= FILEROTATION_NBACKUPS =>
            Cardinality(AllLines(sink)) = NumWorkers * NumSteps
       /\ stderr = 0 /\ sink.rollovers = 0 =>
            Cardinality(LinesOf(sink.active)) = NumWorkers * NumSteps

\* ----------------------------------------------------------------------- C14
\* The files of the sink: the active one and every backup.
NumFiles(s) == 1 + Cardinality(DOMAIN s.backups)

\* C14: the script as written (100 lines of one size, maxBytes = 300,
\* backupCount = 10) never has more than 11 files, the active one and at most
\* 10 backups, and has rolled over at least twice when the loop is over.
C14_ScriptRotations ==
  /\ NumFiles(sink) <= 11
  /\ Cardinality(DOMAIN sink.backups) <= RH_BACKUPCOUNT
  /\ rhI = RH_RANGE => sink.rollovers >= 2

\* The loop is over, the handler rolled over at least twice and 11 files exist.
C14_Witness ==
  /\ rhI = RH_RANGE
  /\ sink.rollovers >= 2
  /\ NumFiles(sink) = 11

\* ----------------------------------------------------------------------- C15
\* C15: a push never waits and never fails for lack of room: whatever is
\* queued, a worker with a logging action left can push its event and main()
\* can push the Sentinel, and the push puts the item into the queue at once;
\* only the listener's queue.get() waits, and only while the queue is empty.
C15_PushNeverBlocks ==
  /\ \A w \in Workers :
       workerPc[w] = "loop" /\ workerStep[w] < NumSteps => ENABLED WorkerLog(w)
  /\ mainPc = "put_sentinel" => ENABLED MainPutSentinel
  /\ listenerPc = "get" => (ENABLED ListenerGet <=> pipe # <<>>)
  /\ Occupancy >= Cardinality(InFlight)

\* The listener has not popped anything yet and every event of every worker and
\* the Sentinel were pushed behind its back.
C15_Witness ==
  /\ listenerPc = "configure"
  /\ mainPc = "join_listener"
  /\ Len(pipe) = NumWorkers * NumSteps + 1
  /\ Occupancy = NumWorkers * NumSteps + 1

\* ----------------------------------------------------------------------- C16
\* C16 as stated: with backupCount = 0 a rollover truncates the active file in
\* place, so after the emit that rolled over the active file holds only the
\* line just written and no backup exists.
C16_TruncateInPlace ==
  [][sink'.rollovers > sink.rollovers =>
       /\ sink'.active = <<lastLine'>>
       /\ Size(sink'.active) = FormatLen(lastLine')
       /\ DOMAIN sink'.backups = {}]_vars

\* C16 amended: with backupCount = 0 a rollover renames nothing and truncates
\* nothing: the active file is reopened for appending, keeps every line it had
\* and grows past maxBytes, its size never going back to 0, and no backup
\* exists.
C16_NoTruncation ==
  [][sink'.rollovers > sink.rollovers =>
       /\ sink'.active = Append(sink.active, lastLine')
       /\ Size(sink'.active) = Size(sink.active) + FormatLen(lastLine')
       /\ DOMAIN sink'.backups = {}]_vars

\* The handler rolled over and the active file, with no backup beside it, holds
\* every line written and more than maxBytes bytes.
C16_Witness ==
  /\ sink.rollovers >= 1
  /\ Len(sink.active) = rhI
  /\ Size(sink.active) > rh_maxBytes
  /\ DOMAIN sink.backups = {}

\* ----------------------------------------------------------------------- C17
\* The items that entered the queue behind a Sentinel.
BehindSentinel(q) ==
  {q[j] : j \in {k \in 1..Len(q) : \E i \in 1..(k - 1) : q[i] = None}}

\* C17: when main() pushes the Sentinel before the workers have finished, the
\* events that enter the queue behind the Sentinel are never popped, dispatched
\* or written: they stay in the queue, also after the listener has stopped and
\* main() has returned, because the listener stops reading at the first
\* Sentinel.
C17_EarlySentinelTruncates ==
  [][\A r \in BehindSentinel(queued') :
       /\ r \in SeqToSet(pipe')
       /\ r \notin SeqToSet(dispatched')
       /\ record' # r
       /\ Written(sink', r) = 0]_vars

\* The listener has stopped and main() has returned, and an event a worker
\* pushed is still in the queue, behind the Sentinel, and in no file.
C17_Witness ==
  /\ listenerPc = "stopped"
  /\ mainPc = "done"
  /\ \E r \in pushed :
       /\ r \in BehindSentinel(queued)
       /\ r \in SeqToSet(pipe)
       /\ Written(sink, r) = 0

\* ----------------------------------------------------------------------- C18
\* How many Sentinels a sequence of queue items holds.
NumSentinels(q) == CountIn(q, None)

\* C18: the QueueHandler is installed in workers only and the
\* RotatingFileHandler in the listener only; the listener never pushes into
\* the queue, so every item that ever entered the queue is an event pushed by a
\* worker or the Sentinel of main(), and no event enters it twice; a record the
\* listener dispatches without failure is written to the files once, and no
\* line is ever in the files twice.
C18_NoFeedbackNoDuplicate ==
  [][/\ rootLogger'[Listener].handlers \subseteq {"RotatingFileHandler"}
     /\ \A w \in Workers : rootLogger'[w].handlers \subseteq {"QueueHandler"}
     /\ rootLogger'[Main].handlers = {}
     /\ buffer'[Listener] = <<>>
     /\ sinkWriters' \subseteq {Listener}
     /\ pushed' # pushed => \A r \in pushed' \ pushed : r.proc \in Workers
     /\ sentinels' # sentinels => Last(sentinels') = Main
     /\ queued' # queued =>
          /\ queued = SubSeq(queued', 1, Len(queued))
          /\ Len(queued') = Len(queued) + 1
          /\ IF Last(queued') = None
             THEN NumSentinels(queued') <= Len(sentinels')
             ELSE Last(queued') \in pushed' \ SeqToSet(queued)
     /\ Len(dispatched') > Len(dispatched) /\ dropped' = dropped =>
          /\ Written(sink', Last(dispatched')) = 1
          /\ Written(sink, Last(dispatched')) = 0
     /\ sink' # sink => \A r \in AllLines(sink') : Written(sink', r) = 1]_vars

\* The listener has stopped after dispatching every event of every worker
\* without a failure: each is in the files once, and what went through the
\* queue is these events and one Sentinel.
C18_Witness ==
  /\ listenerPc = "stopped"
  /\ stderr = 0
  /\ SeqToSet(dispatched) = pushed
  /\ Cardinality(pushed) = NumWorkers * NumSteps
  /\ \A r \in pushed : Written(sink, r) = 1
  /\ Len(queued) = NumWorkers * NumSteps + 1
  /\ NumSentinels(queued) = 1
  /\ buffer[Listener] = <<>>

\* ----------------------------------------------------------------------- C19
\* How many events a sequence of queue items holds.
NumEvents(q) == Len(q) - NumSentinels(q)

\* The events on their way: in the buffer of a process or in the pipe.
RECURSIVE BufferedEvents(_)
BufferedEvents(n) == IF n < 0 THEN 0 ELSE NumEvents(buffer[n]) + BufferedEvents(n - 1)

StillInQueue == NumEvents(pipe) + BufferedEvents(NumWorkers + 1)

\* The event the listener has popped and is dispatching.
InDispatch == IF listenerPc = "handle" THEN 1 ELSE 0

\* No worker runs before the listener process was started, and every event
\* pushed is in the queue, or being dispatched, or was dispatched, written or
\* dropped with a report to stderr.
C19_Conservation ==
  /\ started > 0 => listenerPc # "unstarted"
  /\ Cardinality(pushed) =
       (Len(dispatched) - Len(dropped)) + Len(dropped) + InDispatch + StillInQueue

\* C19: the listener is started before any worker; the events pushed, also
\* those pushed before the listener has popped anything or while it is still
\* configuring, stay in the queue and are all dispatched later, and at every
\* state the events pushed are those dispatched or dropped with a diagnostic
\* plus those still in the queue.
C19_ReadinessNotNeeded ==
  /\ []C19_Conservation
  /\ \A w \in Workers : \A i \in 0..(NumSteps - 1) :
       (LogRecord(w, i, 1) \in pushed) ~> (LogRecord(w, i, 1) \in SeqToSet(dispatched))

\* C19 fails only in the runs in which the listener process ended in its
\* configurer: in every other run every event pushed is dispatched later.
C19_ReadinessNotNeededUnlessStartupFailed ==
  /\ []C19_Conservation
  /\ \A w \in Workers : \A i \in 0..(NumSteps - 1) :
       (LogRecord(w, i, 1) \in pushed) ~>
         (LogRecord(w, i, 1) \in SeqToSet(dispatched) \/ listenerPc = "crashed")

====
